---- MODULE Spec2Model ----
(***************************************************************************)
(* impala::HashTable (be/src/exec/hash-table.h): a multi-set of TupleRow*  *)
(* indexed by the values of build exprs, probed through the NULL sentinel  *)
(* and current_probe_row_, with its Iterator.                              *)
(***************************************************************************)
EXTENDS Integers, Sequences, FiniteSets

\* ------------------------------------------------------------- bounds ----
\* Largest number of entries the table is filled with.
MaxSize == 3
\* Number of key exprs in build_exprs1_/build_exprs2_/probe_exprs_.
NumExprs == 2
\* bucket_count() of the unordered_multiset (no rehash is modelled).
NumBuckets == 2

\* ---------------------------------------------------------- the rows ----
\* What Expr::GetValue returns for a SQL NULL (a NULL void*).
NullV == 0
\* The values a key expr returns: NULL or one of two non-null values.
Values == {NullV, 1, 2}

\* The tuples a set of NumExprs key exprs can return: the first expr is
\* nullable over the whole value range, the others over {NULL, 1}.
KeyTuples ==
  { k \in [1..NumExprs -> Values] : \A i \in 2..NumExprs : k[i] \in {NullV, 1} }

\* The NULL TupleRow*: the probe sentinel and the "no more rows" result.
NULL == [id |-> 0, vals |-> <<>>]
\* Build rows: one TupleRow* per key tuple, and a second, distinct TupleRow*
\* for the key without any NULL <<1, 1>> and for the all-NULL key.
DupKeys == { k \in KeyTuples : \A i \in 1..NumExprs : k[i] = k[1] /\ k[i] # 2 }
BuildRows == [id : {1}, vals : KeyTuples] \cup [id : {2}, vals : DupKeys]
\* Probe rows come from the other join input, one per key tuple; they hold
\* the key columns in the opposite order (see ProbeExpr).
ProbeRows ==
  { [id |-> 3, vals |-> [n \in 1..NumExprs |-> k[NumExprs + 1 - n]]] :
      k \in KeyTuples }

\* build_exprs1_ / build_exprs2_: the i-th build expr over build row r.
BuildExpr(i, r) == r.vals[i]
\* probe_exprs_: the i-th probe expr over probe row p.  Probe rows have
\* their own layout: the key columns are stored in the opposite order.
ProbeExpr(i, p) == p.vals[NumExprs + 1 - i]

\* The key tuple of a build row / of a probe row.
BuildKey(r) == [i \in 1..NumExprs |-> BuildExpr(i, r)]
ProbeKey(p) == [i \in 1..NumExprs |-> ProbeExpr(i, p)]

\* ------------------------------------------------------------ state ----
VARIABLES
  stores_nulls,        \* HashTable::stores_nulls_
  hash_tbl_,           \* HashTable::hash_tbl_: bucket -> sequence of TupleRow*
  current_probe_row_,  \* HashTable::current_probe_row_
  it,                  \* the caller's Iterator objects
  ret,                 \* what the last call returned
  inserted,            \* history: row -> number of Insert(row) calls so far
  thr,                 \* the threads that are inside a Scan call
  evals                \* history: the HashFn / EqualsFn calls that the last
                       \* serialized Insert or Scan made

vars ==
  <<stores_nulls, hash_tbl_, current_probe_row_, it, ret, inserted, thr, evals>>

Buckets == 1..NumBuckets

\* The caller's iterators.
Iters == {"it1", "it2"}

RECURSIVE Concat(_, _)
\* The nodes of buckets b..NumBuckets in iteration order.
Concat(tbl, b) == IF b > NumBuckets THEN <<>> ELSE tbl[b] \o Concat(tbl, b + 1)

\* begin() .. end(): the entries in the container's iteration order.
Nodes(tbl) == Concat(tbl, 1)

\* HashTable::size()
size == Len(Nodes(hash_tbl_))

\* Position of end(): one past the last node.
End(tbl) == Len(Nodes(tbl)) + 1

RECURSIVE Offset(_, _)
\* Number of nodes in the buckets before bucket b.
Offset(tbl, b) == IF b = 1 THEN 0 ELSE Len(tbl[b - 1]) + Offset(tbl, b - 1)

\* --------------------------------------------- hash / equality policy ----
\* The key tuple HashFn and EqualsFn use for x: probe exprs over the
\* current probe row for the NULL sentinel, build exprs over x otherwise.
KeyOf(x, probe) == IF x = NULL THEN ProbeKey(probe) ELSE BuildKey(x)

RECURSIVE HashCombine(_, _, _)
\* Sequential, order-sensitive mix of vals[i..]; a NULL value mixes in 0.
HashCombine(seed, vals, i) ==
  IF i > Len(vals) THEN seed
  ELSE HashCombine(seed * 31 + vals[i], vals, i + 1)

\* Mutant: the hash of the row pointer itself, as the container's default
\* hash function computes it, which ignores the key values.
HashFn_ByPointer(r, probe) == r.id

\* HashFn::operator()(r), with current_probe_row_ = probe.
HashFn(r, probe) == HashCombine(0, KeyOf(r, probe), 1)

\* Mutant: a first argument that is not the sentinel is keyed by the probe
\* exprs over that row, the second argument by the build exprs.
EqualsFn_ProbeExprsOverA(a, b, probe, sn) ==
  LET ka == IF a = NULL THEN ProbeKey(probe) ELSE ProbeKey(a)
      kb == KeyOf(b, probe)
  IN  \A i \in 1..NumExprs :
        \/ ka[i] = NullV /\ kb[i] = NullV /\ sn
        \/ ka[i] # NullV /\ kb[i] # NullV /\ ka[i] = kb[i]

\* EqualsFn::operator()(a, b), with current_probe_row_ = probe and
\* stores_nulls_ = sn: value-wise equality, NULL = NULL only under sn.
EqualsFn(a, b, probe, sn) ==
  LET ka == KeyOf(a, probe)
      kb == KeyOf(b, probe)
  IN  \A i \in 1..NumExprs :
        \/ ka[i] = NullV /\ kb[i] = NullV /\ sn
        \/ ka[i] # NullV /\ kb[i] # NullV /\ ka[i] = kb[i]

\* HashTable::HasNulls(build_row)
HasNulls(build_row) == \E i \in 1..NumExprs : BuildExpr(i, build_row) = NullV

\* -------------------------------------- boost::unordered_multiset ----
\* The bucket a hash value falls in.
BucketOf(h) == (h % NumBuckets) + 1

SetMin(S) == CHOOSE x \in S : \A y \in S : x <= y
SetMax(S) == CHOOSE x \in S : \A y \in S : y <= x

\* Mutant: the range of equal_range runs on to the end of the bucket
\* instead of the end of the group.
GroupEnd_ToBucketEnd(s, f, sn) == Len(s)

\* The last index of the group of equivalent nodes that starts at index f
\* of bucket sequence s (equivalent nodes are linked into one group).
GroupEnd(s, f, sn) ==
  SetMax({ l \in f..Len(s) : \A j \in f..l : EqualsFn(s[f], s[j], NULL, sn) })

\* hash_tbl_->equal_range(k): <<first, second>> as positions in iteration
\* order; <<end(), end()>> when no node of k's bucket is equivalent to k.
EqualRange(tbl, k, probe, sn) ==
  LET b == BucketOf(HashFn(k, probe))
      s == tbl[b]
      m == { j \in 1..Len(s) : EqualsFn(k, s[j], probe, sn) }
  IN  IF m = {} THEN <<End(tbl), End(tbl)>>
      ELSE <<Offset(tbl, b) + SetMin(m),
             Offset(tbl, b) + GroupEnd(s, SetMin(m), sn) + 1>>

\* Mutant: insert(r) links the new node anywhere in its bucket, also
\* inside a group of nodes that are not equivalent to r.
InsertPositions_Anywhere(s, r, sn) == 1..(Len(s) + 1)

\* The indices of bucket sequence s at which insert(r) may link the new
\* node: next to or inside r's group, or else between two groups.
InsertPositions(s, r, sn) ==
  LET m == { j \in 1..Len(s) : EqualsFn(r, s[j], NULL, sn) }
  IN  IF m # {} THEN SetMin(m)..(SetMax(m) + 1)
      ELSE { q \in 1..(Len(s) + 1) :
               q = 1 \/ q = Len(s) + 1 \/ ~EqualsFn(s[q - 1], s[q], NULL, sn) }

\* Sequence s with x put at index q.
InsertAt(s, q, x) == SubSeq(s, 1, q - 1) \o <<x>> \o SubSeq(s, q, Len(s))

\* Mutant: insert(r) of a set, not a multi-set: r is dropped when a node
\* equivalent to it is already stored.
InsertInto_Unique(tbl, r, sn) ==
  LET b == BucketOf(HashFn(r, NULL))
  IN  IF \E j \in 1..Len(tbl[b]) : EqualsFn(r, tbl[b][j], NULL, sn)
      THEN {tbl}
      ELSE { [tbl EXCEPT ![b] = InsertAt(tbl[b], q, r)] :
               q \in InsertPositions(tbl[b], r, sn) }

\* hash_tbl_->insert(r): the tables that can result.
InsertInto(tbl, r, sn) ==
  LET b == BucketOf(HashFn(r, NULL))
  IN  { [tbl EXCEPT ![b] = InsertAt(tbl[b], q, r)] :
          q \in InsertPositions(tbl[b], r, sn) }

\* ------------------------------------- the calls of HashFn / EqualsFn ----
\* How an argument of HashFn / EqualsFn relates to table tbl.
Kind(x, tbl) ==
  IF x = NULL THEN "sentinel"
  ELSE IF \E b \in Buckets : \E j \in 1..Len(tbl[b]) : tbl[b][j] = x
       THEN "stored"
  ELSE "row"

\* EqualsFn on key tuples ka and kb meets a position at which both values
\* are NULL, the case that stores_nulls_ decides.
NullNull(ka, kb) ==
  \E n \in 1..NumExprs : ka[n] = NullV /\ kb[n] = NullV

\* The record of a call HashFn(r): ctx is the current_probe_row_ read to
\* resolve the sentinel, NULL when nothing was read.
HashEval(r, probe, tbl) ==
  [fn |-> "hash", a |-> Kind(r, tbl), b |-> "none",
   ctx |-> IF r = NULL THEN probe ELSE NULL, nn |-> FALSE]

\* The record of a call EqualsFn(a, b).
EqualsEval(a, b, probe, tbl, sn) ==
  [fn |-> "equals", a |-> Kind(a, tbl), b |-> Kind(b, tbl),
   ctx |-> IF a = NULL \/ b = NULL THEN probe ELSE NULL,
   nn |-> NullNull(KeyOf(a, probe), KeyOf(b, probe))]

\* The calls the container makes to find key k (equal_range(k), or the
\* search of insert(k) for k's group): HashFn(k), then EqualsFn(k, node) on
\* the nodes of k's bucket up to the first equivalent one.
LookupEvals(tbl, k, probe, sn) ==
  LET s == tbl[BucketOf(HashFn(k, probe))]
      m == { j \in 1..Len(s) : EqualsFn(k, s[j], probe, sn) }
      last == IF m = {} THEN Len(s) ELSE SetMin(m)
  IN  {HashEval(k, probe, tbl)}
        \cup { EqualsEval(k, s[j], probe, tbl, sn) : j \in 1..last }

\* The calls Scan makes once current_probe_row_ is probe_row: those of
\* equal_range(NULL), and none on the "return all rows" branch.
ScanEvals(tbl, probe_row, sn) ==
  IF probe_row # NULL THEN LookupEvals(tbl, NULL, probe_row, sn) ELSE {}

\* --------------------------------------------------------- Iterator ----
\* An Iterator whose i_/end_ are singular or invalidated: never passed to
\* Scan, or an insert happened since.
Stale == [i_ |-> 0, end_ |-> 0, valid |-> FALSE,
          probe |-> NULL, seen |-> <<>>, skipped |-> FALSE]

\* Iterator::Reset(range), on behalf of Scan(probe_row, it).
Reset(range, probe_row) ==
  [i_ |-> range[1], end_ |-> range[2], valid |-> TRUE,
   probe |-> probe_row, seen |-> <<>>, skipped |-> FALSE]

\* What the last call returned: the TupleRow* of GetNext, the bool of
\* HasNext, and op = "void" after Insert, Scan and SkipToEnd.
Returned(op, i, row, flag) == [op |-> op, iter |-> i, row |-> row, flag |-> flag]

\* The threads of callers that do not serialize their Scan calls; thread t
\* passes its own Iterator, IterOf(t).
Threads == {"t1", "t2"}
IterOf(t) == IF t = "t1" THEN "it1" ELSE "it2"

\* A thread that is not inside a call.  Within Scan: pc is the statement
\* reached, probe_row the argument, b the bucket equal_range hashed to,
\* pos the node of it to compare next; raced records that another thread
\* wrote current_probe_row_ after this call did.
Idle == [pc |-> "idle", probe_row |-> NULL, b |-> 0, pos |-> 0, raced |-> FALSE]

\* ------------------------------------------------------------- Init ----
Init ==
  /\ stores_nulls \in BOOLEAN
  /\ hash_tbl_ = [b \in Buckets |-> <<>>]
  /\ current_probe_row_ = NULL
  /\ it = [i \in Iters |-> Stale]
  /\ ret = Returned("void", "it1", NULL, FALSE)
  /\ inserted = [r \in BuildRows |-> 0]
  /\ thr = [t \in Threads |-> Idle]
  /\ evals = {}

\* ---------------------------------------------------------- actions ----
RECURSIVE SumOver(_, _)
\* The sum of f over the rows of S.
SumOver(f, S) ==
  IF S = {} THEN 0
  ELSE LET r == CHOOSE x \in S : TRUE IN f[r] + SumOver(f, S \ {r})

\* The number of Insert calls made so far.
Calls(ins) == SumOver(ins, BuildRows)

\* Mutant: Insert without the null check.
Insert_NoNullCheck(r) ==
  /\ Calls(inserted) < MaxSize
  /\ evals' = LookupEvals(hash_tbl_, r, current_probe_row_, stores_nulls)
  /\ hash_tbl_' \in InsertInto(hash_tbl_, r, stores_nulls)
  /\ it' = [i \in Iters |-> Stale]
  /\ inserted' = [inserted EXCEPT ![r] = @ + 1]
  /\ ret' = Returned("void", "it1", NULL, FALSE)
  /\ UNCHANGED <<stores_nulls, current_probe_row_, thr>>

\* Mutant: Insert rejects NULL keys whatever stores_nulls_ is.
Insert_RejectsNulls(r) ==
  /\ Calls(inserted) < MaxSize
  /\ IF HasNulls(r)
     THEN /\ UNCHANGED <<hash_tbl_, it>>
          /\ evals' = {}
     ELSE /\ evals' = LookupEvals(hash_tbl_, r, current_probe_row_, stores_nulls)
          /\ hash_tbl_' \in InsertInto(hash_tbl_, r, stores_nulls)
          /\ it' = [i \in Iters |-> Stale]
  /\ inserted' = [inserted EXCEPT ![r] = @ + 1]
  /\ ret' = Returned("void", "it1", NULL, FALSE)
  /\ UNCHANGED <<stores_nulls, current_probe_row_, thr>>

\* HashTable::Insert(r)
Insert(r) ==
  /\ Calls(inserted) < MaxSize
  /\ IF ~stores_nulls /\ HasNulls(r)
     THEN /\ UNCHANGED <<hash_tbl_, it>>
          /\ evals' = {}
     ELSE /\ evals' = LookupEvals(hash_tbl_, r, current_probe_row_, stores_nulls)
          /\ hash_tbl_' \in InsertInto(hash_tbl_, r, stores_nulls)
          /\ it' = [i \in Iters |-> Stale]
  /\ inserted' = [inserted EXCEPT ![r] = @ + 1]
  /\ ret' = Returned("void", "it1", NULL, FALSE)
  /\ UNCHANGED <<stores_nulls, current_probe_row_, thr>>

\* Mutant: Scan takes the "return all rows" branch for every probe row.
ScanRange_Full(tbl, probe_row, sn) == <<1, End(tbl)>>

\* Mutant: the "return all rows" branch ranges over the first bucket only.
ScanRange_FirstBucket(tbl, probe_row, sn) ==
  IF probe_row # NULL
  THEN EqualRange(tbl, NULL, probe_row, sn)
  ELSE <<1, Len(tbl[1]) + 1>>

\* The range Scan hands to Reset once current_probe_row_ is probe_row.
ScanRange(tbl, probe_row, sn) ==
  IF probe_row # NULL
  THEN EqualRange(tbl, NULL, probe_row, sn)
  ELSE <<1, End(tbl)>>

\* Mutant: Scan with its two statements in the other order, the lookup
\* before the assignment to current_probe_row_, so that the sentinel is
\* resolved against the probe row the previous Scan left (against no row
\* at all, which finds nothing, when that is NULL).
Scan_LookupFirst(probe_row, i) ==
  /\ current_probe_row_' = probe_row
  /\ it' = [it EXCEPT ![i] =
              Reset(IF probe_row # NULL /\ current_probe_row_ = NULL
                    THEN <<End(hash_tbl_), End(hash_tbl_)>>
                    ELSE ScanRange(hash_tbl_,
                                   IF probe_row # NULL THEN current_probe_row_
                                   ELSE NULL,
                                   stores_nulls),
                    probe_row)]
  /\ evals' = IF probe_row = NULL THEN {}
              ELSE IF current_probe_row_ = NULL
                   THEN {HashEval(NULL, NULL, hash_tbl_)}
                   ELSE ScanEvals(hash_tbl_, current_probe_row_, stores_nulls)
  /\ ret' = Returned("void", "it1", NULL, FALSE)
  /\ UNCHANGED <<stores_nulls, hash_tbl_, inserted, thr>>

\* Mutant: Scan without the test of probe_row, "equal_range(NULL)" on every
\* call, so that a full scan resolves the sentinel while current_probe_row_
\* is NULL (which finds nothing).
Scan_AlwaysKeyed(probe_row, i) ==
  /\ current_probe_row_' = probe_row
  /\ it' = [it EXCEPT ![i] =
              Reset(IF probe_row # NULL
                    THEN EqualRange(hash_tbl_, NULL, probe_row, stores_nulls)
                    ELSE <<End(hash_tbl_), End(hash_tbl_)>>,
                    probe_row)]
  /\ evals' = IF probe_row # NULL
              THEN LookupEvals(hash_tbl_, NULL, probe_row, stores_nulls)
              ELSE {HashEval(NULL, NULL, hash_tbl_)}
  /\ ret' = Returned("void", "it1", NULL, FALSE)
  /\ UNCHANGED <<stores_nulls, hash_tbl_, inserted, thr>>

\* Mutant: the range is kept once for the table instead of in each
\* Iterator, so that Scan moves every open iterator to the new range.
Scan_SharedRange(probe_row, i) ==
  /\ current_probe_row_' = probe_row
  /\ it' = [j \in Iters |->
              LET range == ScanRange(hash_tbl_, current_probe_row_',
                                     stores_nulls)
              IN  IF j = i THEN Reset(range, probe_row)
                  ELSE IF it[j].valid
                       THEN [it[j] EXCEPT !.i_ = range[1], !.end_ = range[2]]
                       ELSE it[j]]
  /\ evals' = ScanEvals(hash_tbl_, current_probe_row_', stores_nulls)
  /\ ret' = Returned("void", "it1", NULL, FALSE)
  /\ UNCHANGED <<stores_nulls, hash_tbl_, inserted, thr>>

\* HashTable::Scan(probe_row, it)
Scan(probe_row, i) ==
  /\ current_probe_row_' = probe_row
  /\ it' = [it EXCEPT ![i] =
              Reset(ScanRange(hash_tbl_, current_probe_row_', stores_nulls),
                    probe_row)]
  /\ evals' = ScanEvals(hash_tbl_, current_probe_row_', stores_nulls)
  /\ ret' = Returned("void", "it1", NULL, FALSE)
  /\ UNCHANGED <<stores_nulls, hash_tbl_, inserted, thr>>

\* Iterator::HasNext() of a valid iterator.
HasNextOf(x) == x.i_ # x.end_

\* What *i_ can read: the node at i_, or anything once i_ is not a node.
Deref(tbl, pos) ==
  IF pos \in 1..Len(Nodes(tbl)) THEN {Nodes(tbl)[pos]}
  ELSE {NULL} \cup { Nodes(tbl)[j] : j \in 1..Len(Nodes(tbl)) }

\* Iterator::HasNext()
HasNext(i) ==
  /\ ret' \in { Returned("HasNext", i, NULL, f) :
                 f \in IF it[i].valid THEN {HasNextOf(it[i])} ELSE BOOLEAN }
  /\ UNCHANGED <<stores_nulls, hash_tbl_, current_probe_row_, it, inserted, thr, evals>>

\* Mutant: GetNext without the HasNext test, "return *i_++" always.
GetNext_NoCheck(i) ==
  /\ ret' \in { Returned("GetNext", i, r, FALSE) :
                 r \in Deref(hash_tbl_, it[i].i_) }
  /\ it' = IF it[i].valid
           THEN [it EXCEPT ![i].i_ = @ + 1, ![i].seen = Append(@, it[i].i_)]
           ELSE it
  /\ UNCHANGED <<stores_nulls, hash_tbl_, current_probe_row_, inserted, thr, evals>>

\* The table without the node at position pos.
RemoveAt(tbl, pos) ==
  [b \in Buckets |->
     LET k == pos - Offset(tbl, b)
     IN  IF k \in 1..Len(tbl[b])
         THEN SubSeq(tbl[b], 1, k - 1) \o SubSeq(tbl[b], k + 1, Len(tbl[b]))
         ELSE tbl[b]]

\* Mutant: a consuming GetNext, which erases the node it returns.
GetNext_Erase(i) ==
  /\ IF it[i].valid /\ HasNextOf(it[i])
     THEN /\ ret' \in { Returned("GetNext", i, r, FALSE) :
                         r \in Deref(hash_tbl_, it[i].i_) }
          /\ hash_tbl_' = RemoveAt(hash_tbl_, it[i].i_)
          /\ it' = [it EXCEPT ![i].end_ = @ - 1]
     ELSE /\ ret' = Returned("GetNext", i, NULL, FALSE)
          /\ UNCHANGED <<hash_tbl_, it>>
  /\ UNCHANGED <<stores_nulls, current_probe_row_, inserted, thr, evals>>

\* Mutant: GetNext with the increment before the read, "return *++i_".
GetNext_PreIncrement(i) ==
  /\ IF it[i].valid
     THEN IF ~HasNextOf(it[i])
          THEN /\ ret' = Returned("GetNext", i, NULL, FALSE)
               /\ it' = it
          ELSE /\ ret' \in { Returned("GetNext", i, r, FALSE) :
                              r \in Deref(hash_tbl_, it[i].i_ + 1) }
               /\ it' = [it EXCEPT ![i].i_ = @ + 1,
                                   ![i].seen = Append(@, it[i].i_)]
     ELSE /\ ret' \in { Returned("GetNext", i, r, FALSE) :
                         r \in Deref(hash_tbl_, 0) }
          /\ it' = it
  /\ UNCHANGED <<stores_nulls, hash_tbl_, current_probe_row_, inserted, thr, evals>>

\* Iterator::GetNext()
GetNext(i) ==
  /\ IF it[i].valid
     THEN IF ~HasNextOf(it[i])
          THEN /\ ret' = Returned("GetNext", i, NULL, FALSE)
               /\ it' = it
          ELSE /\ ret' \in { Returned("GetNext", i, r, FALSE) :
                              r \in Deref(hash_tbl_, it[i].i_) }
               /\ it' = [it EXCEPT ![i].i_ = @ + 1,
                                   ![i].seen = Append(@, it[i].i_)]
     ELSE /\ ret' \in { Returned("GetNext", i, r, FALSE) :
                         r \in Deref(hash_tbl_, 0) }
          /\ it' = it
  /\ UNCHANGED <<stores_nulls, hash_tbl_, current_probe_row_, inserted, thr, evals>>

\* Mutant: SkipToEnd with the assignment reversed, "end_ = i_".
SkipToEnd_Swapped(i) ==
  /\ it' = IF it[i].valid
           THEN [it EXCEPT ![i].end_ = it[i].i_,
                           ![i].skipped = @ \/ HasNextOf(it[i])]
           ELSE it
  /\ ret' = Returned("void", "it1", NULL, FALSE)
  /\ UNCHANGED <<stores_nulls, hash_tbl_, current_probe_row_, inserted, thr, evals>>

\* Iterator::SkipToEnd()
SkipToEnd(i) ==
  /\ it' = IF it[i].valid
           THEN [it EXCEPT ![i].i_ = it[i].end_,
                           ![i].skipped = @ \/ HasNextOf(it[i])]
           ELSE it
  /\ ret' = Returned("void", "it1", NULL, FALSE)
  /\ UNCHANGED <<stores_nulls, hash_tbl_, current_probe_row_, inserted, thr, evals>>

\* The iterators of a single-threaded caller that keeps one scan open.
SeqIters == {"it1"}

Next ==
  \/ \E r \in BuildRows : Insert(r)
  \/ \E p \in ProbeRows \cup {NULL}, i \in SeqIters : Scan(p, i)
  \/ \E i \in SeqIters : HasNext(i)
  \/ \E i \in SeqIters : GetNext(i)
  \/ \E i \in SeqIters : SkipToEnd(i)

Spec == Init /\ [][Next]_vars

\* ---------------------------------------- Scan calls not serialized ----
\* Largest number of entries the table is filled with before threads scan.
ConcSize == 2

\* Insert(r) of the build phase, which ends when the first thread scans.
BuildInsert(r) ==
  /\ \A t \in Threads : thr[t].pc = "idle"
  /\ Calls(inserted) < ConcSize
  /\ Insert(r)

\* Scan, line 148: current_probe_row_ = probe_row, by thread t.
ScanWrite(t, probe_row) ==
  /\ thr[t].pc = "idle"
  /\ current_probe_row_' = probe_row
  /\ thr' = [u \in Threads |->
              IF u = t
              THEN [Idle EXCEPT !.pc = "wrote", !.probe_row = probe_row]
              ELSE [thr[u] EXCEPT !.raced = @ \/ thr[u].pc \in {"wrote", "hashed"}]]
  /\ UNCHANGED <<stores_nulls, hash_tbl_, it, ret, inserted, evals>>

\* Scan, line 151: equal_range(NULL) hashes the sentinel, reading
\* current_probe_row_, and so picks the bucket to search.
ScanHash(t) ==
  /\ thr[t].pc = "wrote"
  /\ thr' = [thr EXCEPT ![t].pc = "hashed",
                        ![t].b = BucketOf(HashFn(NULL, current_probe_row_)),
                        ![t].pos = 1]
  /\ UNCHANGED <<stores_nulls, hash_tbl_, current_probe_row_, it, ret, inserted, evals>>

\* Mutant: the lookup is a find(): the range is the first equivalent node
\* alone, not its whole group.
ScanCompare_FirstOnly(t) ==
  /\ thr[t].pc = "hashed"
  /\ LET s == hash_tbl_[thr[t].b]
         k == thr[t].pos
         done(range) ==
           /\ it' = [it EXCEPT ![IterOf(t)] = Reset(range, thr[t].probe_row)]
           /\ thr' = [thr EXCEPT ![t].pc = "done", ![t].b = 0, ![t].pos = 0]
     IN  IF k > Len(s)
         THEN done(<<End(hash_tbl_), End(hash_tbl_)>>)
         ELSE IF EqualsFn(NULL, s[k], current_probe_row_, stores_nulls)
         THEN done(<<Offset(hash_tbl_, thr[t].b) + k,
                     Offset(hash_tbl_, thr[t].b) + k + 1>>)
         ELSE /\ thr' = [thr EXCEPT ![t].pos = k + 1]
              /\ it' = it
  /\ UNCHANGED <<stores_nulls, hash_tbl_, current_probe_row_, ret, inserted, evals>>

\* Scan, line 151: equal_range(NULL) compares the sentinel with the next
\* node of the bucket, reading current_probe_row_; at the first equivalent
\* node, or at the end of the bucket, Reset gets the range and Scan returns.
ScanCompare(t) ==
  /\ thr[t].pc = "hashed"
  /\ LET s == hash_tbl_[thr[t].b]
         k == thr[t].pos
         done(range) ==
           /\ it' = [it EXCEPT ![IterOf(t)] = Reset(range, thr[t].probe_row)]
           /\ thr' = [thr EXCEPT ![t].pc = "done", ![t].b = 0, ![t].pos = 0]
     IN  IF k > Len(s)
         THEN done(<<End(hash_tbl_), End(hash_tbl_)>>)
         ELSE IF EqualsFn(NULL, s[k], current_probe_row_, stores_nulls)
         THEN done(<<Offset(hash_tbl_, thr[t].b) + k,
                     Offset(hash_tbl_, thr[t].b) + GroupEnd(s, k, stores_nulls) + 1>>)
         ELSE /\ thr' = [thr EXCEPT ![t].pos = k + 1]
              /\ it' = it
  /\ UNCHANGED <<stores_nulls, hash_tbl_, current_probe_row_, ret, inserted, evals>>

NextConc ==
  \/ \E r \in BuildRows : BuildInsert(r)
  \/ \E t \in Threads, p \in ProbeRows : ScanWrite(t, p)
  \/ \E t \in Threads : ScanHash(t)
  \/ \E t \in Threads : ScanCompare(t)

\* A build phase, then one keyed Scan per thread, the calls not serialized.
SpecConc == Init /\ [][NextConc]_vars

\* The build and the lookups alone: the calls that evaluate HashFn and
\* EqualsFn, without the iteration over the ranges they return.
NextLookup ==
  \/ \E r \in BuildRows : Insert(r)
  \/ \E p \in ProbeRows \cup {NULL}, i \in SeqIters : Scan(p, i)

SpecLookup == Init /\ [][NextLookup]_vars

\* A caller that builds a table of at most ConcSize Insert calls and then
\* opens two scans, each with its own Iterator: Scan(p1, it1), any number
\* of GetNext calls, Scan(p2, it2), and then GetNext calls on the two
\* iterators in any order.
NextTwo ==
  \/ \E r \in BuildRows :
       /\ \A i \in Iters : ~it[i].valid
       /\ BuildInsert(r)
  \/ \E p \in ProbeRows \cup {NULL} :
       /\ ~it["it1"].valid /\ ~it["it2"].valid
       /\ Scan(p, "it1")
  \/ \E p \in ProbeRows \cup {NULL} :
       /\ it["it1"].valid /\ ~it["it2"].valid
       /\ Scan(p, "it2")
  \/ \E i \in Iters :
       /\ it[i].valid
       /\ GetNext(i)

SpecTwo == Init /\ [][NextTwo]_vars

\* ----------------------------------------------------------- claims ----
\* The elements of a sequence.
Range(s) == { s[j] : j \in 1..Len(s) }

\* The equality contract on key tuples, stated on the values: equal at
\* every position, a NULL matching a NULL only when the table stores NULLs.
KeysMatch(kp, kb) ==
  \A n \in 1..NumExprs : kp[n] = kb[n] /\ (kp[n] # NullV \/ stores_nulls)

\* The positions of the stored entries that match probe row p.
MatchPositions(p) ==
  { j \in 1..size : KeysMatch(ProbeKey(p), BuildKey(Nodes(hash_tbl_)[j])) }

\* Iterator i comes from a Scan with no Insert since and has been drained
\* by GetNext calls alone.
Drained(i) == it[i].valid /\ it[i].i_ = it[i].end_ /\ ~it[i].skipped

\* The entries iterator i has yielded or will yield.
Yield(i) == Range(it[i].seen) \cup (it[i].i_ .. (it[i].end_ - 1))

\* The last call was a GetNext on iterator i, which is still valid.
JustGot(i) == it[i].valid /\ ret.op = "GetNext" /\ ret.iter = i

\* C1: a keyed Scan's iterator, while no Insert intervenes, yields only
\* stored rows whose build key tuple is the probe row's key tuple, and its
\* range is empty from the start when no stored row matches the probe.
C1_ScanYieldsOnlyMatches ==
  \A i \in Iters :
    (it[i].valid /\ it[i].probe # NULL) =>
      /\ \A j \in Yield(i) :
           /\ j \in 1..size
           /\ BuildKey(Nodes(hash_tbl_)[j]) = ProbeKey(it[i].probe)
      /\ (JustGot(i) /\ ret.row # NULL) =>
           BuildKey(ret.row) = ProbeKey(it[i].probe)
      /\ MatchPositions(it[i].probe) = {} =>
           (it[i].i_ = it[i].end_ /\ it[i].seen = <<>>)

\* C1 witness: rows of two different keys are stored and a probe with one
\* of the keys has been drained after yielding at least one row.
C1_Witness ==
  /\ Drained("it1") /\ it["it1"].probe # NULL
  /\ Len(it["it1"].seen) >= 1
  /\ JustGot("it1") /\ ret.row # NULL
  /\ \E j \in 1..size :
       BuildKey(Nodes(hash_tbl_)[j]) # ProbeKey(it["it1"].probe)

\* The number of Insert calls that the null policy let through and whose
\* row matches probe row p.
InsertedMatching(p) ==
  SumOver(inserted,
          { r \in BuildRows : KeysMatch(ProbeKey(p), BuildKey(r)) })

\* C2: multiplicity. Draining a keyed Scan yields each stored entry of the
\* probe's key exactly once: as many rows as Insert calls stored that key.
C2_Multiplicity ==
  \A i \in Iters :
    (Drained(i) /\ it[i].probe # NULL) =>
      /\ Len(it[i].seen) = InsertedMatching(it[i].probe)
      /\ Cardinality(Range(it[i].seen)) = Len(it[i].seen)
      /\ Range(it[i].seen) = MatchPositions(it[i].probe)
      /\ \A j \in Range(it[i].seen) : Nodes(hash_tbl_)[j] # NULL

\* C2 witness: a drained keyed Scan that yielded two entries of its key
\* while an entry of another key is stored.
C2_Witness ==
  /\ Drained("it1") /\ it["it1"].probe # NULL
  /\ Len(it["it1"].seen) = 2
  /\ size = 3

\* C3: full scan completeness. Draining a Scan with the NULL probe yields
\* every stored entry exactly once, size() rows in all, none of them NULL.
C3_FullScanComplete ==
  \A i \in Iters :
    (Drained(i) /\ it[i].probe = NULL) =>
      /\ Len(it[i].seen) = size
      /\ Range(it[i].seen) = 1..size
      /\ size = SumOver(inserted,
                        { r \in BuildRows : stores_nulls \/ ~HasNulls(r) })
      /\ \A j \in 1..size : Nodes(hash_tbl_)[j] # NULL

\* C3 witness: a drained full scan over three entries of at least two
\* different keys, started after a keyed Scan had set the probe context.
C3_Witness ==
  /\ Drained("it1") /\ it["it1"].probe = NULL
  /\ Len(it["it1"].seen) = 3
  /\ \E j, k \in 1..size :
       BuildKey(Nodes(hash_tbl_)[j]) # BuildKey(Nodes(hash_tbl_)[k])

\* Key tuple k has a NULL at some position / at every position.
HasNullKey(k) == \E n \in 1..NumExprs : k[n] = NullV
AllNullKey(k) == \A n \in 1..NumExprs : k[n] = NullV

\* The rows of Insert calls that the null policy lets through.
AcceptedRows == { r \in BuildRows : stores_nulls \/ ~HasNullKey(BuildKey(r)) }

\* C4: null rejection. When stores_nulls is false no stored entry has a
\* NULL in its build key, no Scan returns a row with one, and an Insert of
\* a row with a NULL in its key leaves size() and the contents unchanged.
C4_NullRejection ==
  /\ [](~stores_nulls =>
          /\ \A j \in 1..size : ~HasNullKey(BuildKey(Nodes(hash_tbl_)[j]))
          /\ \A i \in Iters :
               /\ it[i].valid => Yield(i) \subseteq 1..size
               /\ (JustGot(i) /\ ret.row # NULL) => ~HasNullKey(BuildKey(ret.row)))
  /\ [][\A r \in BuildRows :
          (~stores_nulls /\ HasNullKey(BuildKey(r)) /\ inserted'[r] # inserted[r])
            => (hash_tbl_' = hash_tbl_ /\ size' = size)]_vars

\* C4 witness: a row with a NULL in its key was passed to Insert of a table
\* that rejects NULLs, and a full scan has since been drained.
C4_Witness ==
  /\ ~stores_nulls
  /\ \E r \in BuildRows : HasNullKey(BuildKey(r)) /\ inserted[r] > 0
  /\ size >= 1
  /\ Drained("it1") /\ it["it1"].probe = NULL /\ Len(it["it1"].seen) = size

\* The positions of the stored entries whose key is all NULL.
AllNullPositions ==
  { j \in 1..size : AllNullKey(BuildKey(Nodes(hash_tbl_)[j])) }

\* C5: null matching. When stores_nulls is true every Insert of a row with
\* an all-NULL key is stored; a drained full scan has returned all of them,
\* and a drained Scan with an all-NULL probe key has returned exactly them.
C5_NullMatching ==
  stores_nulls =>
    /\ Cardinality(AllNullPositions) =
         SumOver(inserted, { r \in BuildRows : AllNullKey(BuildKey(r)) })
    /\ \A i \in Iters :
         Drained(i) =>
           /\ it[i].probe = NULL => AllNullPositions \subseteq Range(it[i].seen)
           /\ (it[i].probe # NULL /\ AllNullKey(ProbeKey(it[i].probe))) =>
                /\ Range(it[i].seen) = AllNullPositions
                /\ Len(it[i].seen) = Cardinality(AllNullPositions)

\* C5 witness: two rows with all-NULL keys and a row with a non-NULL key
\* are stored, and a Scan with an all-NULL probe key has returned two rows.
C5_Witness ==
  /\ stores_nulls
  /\ Cardinality(AllNullPositions) = 2 /\ size = 3
  /\ \E r1, r2 \in BuildRows :
       r1 # r2 /\ AllNullKey(BuildKey(r1)) /\ AllNullKey(BuildKey(r2))
       /\ inserted[r1] = 1 /\ inserted[r2] = 1
  /\ Drained("it1") /\ it["it1"].probe # NULL
  /\ AllNullKey(ProbeKey(it["it1"].probe))
  /\ Len(it["it1"].seen) = 2

\* C6: size() is the number of Insert calls the null policy let through,
\* and every such call of row r added one entry holding r.
C6_SizeCountsAccepted ==
  /\ size = SumOver(inserted, AcceptedRows)
  /\ \A r \in BuildRows :
       Cardinality({ j \in 1..size : Nodes(hash_tbl_)[j] = r }) =
         IF r \in AcceptedRows THEN inserted[r] ELSE 0

\* C6 witness: the same row was inserted twice beside another entry, and
\* calls that do not insert have been made since.
C6_Witness ==
  /\ \E r \in BuildRows : inserted[r] = 2
  /\ size = 3
  /\ it["it1"].valid /\ ret.op = "GetNext"

\* C7: exhaustion is sticky. On a valid iterator with i_ = end_, GetNext
\* returns NULL, HasNext returns false, and neither they nor SkipToEnd move
\* the cursor.
C7_ExhaustionSticky ==
  [][\A i \in Iters :
       (it[i].valid /\ it[i].i_ = it[i].end_
          /\ (GetNext(i) \/ HasNext(i) \/ SkipToEnd(i)))
       => /\ it'[i].valid
          /\ it'[i].i_ = it[i].i_ /\ it'[i].end_ = it[i].end_
          /\ it'[i].i_ = it'[i].end_
          /\ it'[i].seen = it[i].seen
          /\ ret'.op = "GetNext" => ret'.row = NULL
          /\ ret'.op = "HasNext" => ret'.flag = FALSE]_vars

\* C7 witness: an iterator that yielded rows, was drained, and then
\* returned NULL from a further GetNext.
C7_Witness ==
  /\ Drained("it1") /\ Len(it["it1"].seen) >= 1
  /\ JustGot("it1") /\ ret.row = NULL

\* C8: SkipToEnd on a valid iterator at any position makes HasNext false
\* at once and keeps end_, the table and size(); a second SkipToEnd
\* changes nothing; the GetNext after a SkipToEnd returns NULL.
C8_SkipToEnd ==
  [][\A i \in Iters :
       /\ (it[i].valid /\ SkipToEnd(i)) =>
            /\ it'[i].valid /\ ~HasNextOf(it'[i])
            /\ it'[i].i_ = it[i].end_ /\ it'[i].end_ = it[i].end_
            /\ hash_tbl_' = hash_tbl_ /\ size' = size
            /\ it[i].i_ = it[i].end_ => it'[i] = it[i]
       /\ (it[i].valid /\ it[i].skipped /\ GetNext(i)) =>
            (ret'.row = NULL /\ it'[i] = it[i])
       /\ (it[i].valid /\ it[i].skipped /\ HasNext(i)) => ret'.flag = FALSE]_vars

\* C8 witness: a partly drained iterator whose remaining rows SkipToEnd
\* discarded, and whose next GetNext returned NULL.
C8_Witness ==
  /\ it["it1"].valid /\ it["it1"].skipped
  /\ Len(it["it1"].seen) >= 1
  /\ it["it1"].end_ - it["it1"].i_ = 0
  /\ JustGot("it1") /\ ret.row = NULL

\* C9: Scan, HasNext, GetNext and SkipToEnd leave the table and size()
\* alone. Every step that is not an Insert call keeps hash_tbl_ and size();
\* HasNext, GetNext and SkipToEnd keep current_probe_row_ and change at
\* most the cursor of their own iterator; the remaining steps, the Scans,
\* change at most current_probe_row_ and one iterator.
C9_ScansDoNotMutate ==
  [][/\ stores_nulls' = stores_nulls
     /\ inserted' = inserted =>
          /\ hash_tbl_' = hash_tbl_ /\ size' = size
          /\ \E i \in Iters :
               /\ \A j \in Iters \ {i} : it'[j] = it[j]
               /\ (ret'.op \in {"HasNext", "GetNext"} \/ SkipToEnd(i)) =>
                    /\ ret'.op # "void" => ret'.iter = i
                    /\ current_probe_row_' = current_probe_row_
                    /\ it'[i].end_ = it[i].end_
                    /\ it'[i].valid = it[i].valid
                    /\ it'[i].probe = it[i].probe]_vars

\* C9 witness: a non-empty table after a keyed Scan whose iterator has
\* yielded a row.
C9_Witness ==
  /\ size >= 2
  /\ it["it1"].valid /\ Len(it["it1"].seen) >= 1
  /\ current_probe_row_ # NULL
  /\ JustGot("it1") /\ ret.row # NULL

\* The thread other than t.
Other(t) == CHOOSE u \in Threads : u # t

\* C10: Scan calls that are not serialized race on current_probe_row_. A
\* Scan whose lookup no other Scan's write preceded ranges over exactly the
\* matches of its own probe row; one that another Scan's write overtook
\* ranges over matches of its own probe row only or over matches of the
\* other call's probe row only.
C10_ScansRaceOnProbeContext ==
  \A t \in Threads :
    thr[t].pc = "done" =>
      LET i == IterOf(t)
          p == thr[t].probe_row
          q == thr[Other(t)].probe_row
      IN  /\ it[i].valid /\ it[i].probe = p
          /\ ~thr[t].raced => Yield(i) = MatchPositions(p)
          /\ thr[t].raced =>
               \/ Yield(i) \subseteq MatchPositions(p)
               \/ Yield(i) \subseteq MatchPositions(q)

\* C10 witness: thread t1's Scan has returned an iterator that ranges over
\* the entries matching thread t2's probe row, none of which matches its
\* own probe row, whose matches it misses.
C10_Witness ==
  /\ thr["t1"].pc = "done" /\ thr["t2"].pc # "idle"
  /\ thr["t1"].probe_row # thr["t2"].probe_row
  /\ Yield("it1") # {}
  /\ Yield("it1") = MatchPositions(thr["t2"].probe_row)
  /\ MatchPositions(thr["t1"].probe_row) # {}
  /\ MatchPositions(thr["t1"].probe_row) \cap Yield("it1") = {}

\* C11: hash consistency. Whenever the probe key of a probe row p equals
\* the build key of a build row b under the equality contract (a NULL
\* matching a NULL under stores_nulls), the sentinel hashed in the context
\* of p and b itself have the same hash; two build rows of equal key tuples
\* have the same hash; and the hash of a row that is not the sentinel is
\* the same in every probe context.
C11_HashConsistency ==
  \A b \in BuildRows :
    /\ \A p \in ProbeRows :
         KeysMatch(ProbeKey(p), BuildKey(b)) =>
           HashFn(NULL, p) = HashFn(b, current_probe_row_)
    /\ \A a \in BuildRows :
         KeysMatch(BuildKey(a), BuildKey(b)) =>
           HashFn(a, current_probe_row_) = HashFn(b, current_probe_row_)
    /\ \A q \in ProbeRows \cup {NULL} :
         HashFn(b, q) = HashFn(b, current_probe_row_)

\* C11 witness: a keyed Scan whose probe key has a NULL and a non-NULL
\* value hashed the sentinel and found a stored row, while the table also
\* holds a second row of that key and a row of another key.
C11_Witness ==
  /\ it["it1"].valid /\ it["it1"].probe # NULL
  /\ current_probe_row_ = it["it1"].probe
  /\ HasNullKey(ProbeKey(current_probe_row_))
  /\ ~AllNullKey(ProbeKey(current_probe_row_))
  /\ \E e \in evals : e.fn = "hash" /\ e.a = "sentinel"
  /\ Yield("it1") # {}
  /\ size > Cardinality(Yield("it1"))

\* C12: in a sequential series of Scans, every HashFn and EqualsFn call
\* that resolves the sentinel reads the probe row of the Scan in progress,
\* which Scan stored before its lookup: never the row of an earlier Scan
\* and never the NULL an earlier full scan left. The lookup of a keyed Scan
\* hashes the sentinel (an Insert that rejects its row makes no call and
\* leaves the iterator valid).
C12_SentinelUsesProbeInProgress ==
  /\ \A e \in evals :
       (e.a = "sentinel" \/ e.b = "sentinel") =>
         /\ e.ctx # NULL
         /\ e.ctx = current_probe_row_
         /\ \A i \in SeqIters : it[i].valid /\ it[i].probe = e.ctx
  /\ \A i \in SeqIters :
       (it[i].valid /\ it[i].probe # NULL /\ evals # {}) =>
         \E e \in evals : e.fn = "hash" /\ e.a = "sentinel"

\* C12 witness: the iterator comes from a keyed Scan that compared the
\* sentinel with a stored row and found no match, and it followed a
\* GetNext on an earlier Scan's iterator, i.e. a Scan with another context.
C12_Witness ==
  /\ it["it1"].valid /\ it["it1"].probe # NULL
  /\ it["it1"].seen = <<>> /\ it["it1"].i_ = it["it1"].end_
  /\ ret.op = "void"
  /\ \E e \in evals : e.fn = "equals" /\ e.a = "sentinel" /\ e.b = "stored"
  /\ size >= 2

InsertedWithKey(k) ==
  SumOver(inserted, { r \in BuildRows : BuildKey(r) = k })

\* C15: under stores_nulls, equality is position by position with a NULL
\* equal to a NULL also in a key tuple that is only partly NULL: draining a
\* Scan whose probe key has a NULL at some positions and values at others
\* yields exactly the stored rows with a NULL at the same positions and
\* the same values at the other positions, each once.
C15_PartialNullMatching ==
  stores_nulls =>
    \A i \in Iters :
      LET k == ProbeKey(it[i].probe)
      IN  (Drained(i) /\ it[i].probe # NULL
             /\ HasNullKey(k) /\ ~AllNullKey(k)) =>
            /\ Range(it[i].seen)
                 = { j \in 1..size :
                       \A n \in 1..NumExprs :
                         BuildKey(Nodes(hash_tbl_)[j])[n] = k[n] }
            /\ \A j \in Range(it[i].seen), n \in 1..NumExprs :
                 (BuildKey(Nodes(hash_tbl_)[j])[n] = NullV) = (k[n] = NullV)
            /\ Len(it[i].seen) = InsertedWithKey(k)

\* C15 witness: a drained Scan with a partly NULL probe key yielded a row
\* while the table also holds a row with its NULL at another position and
\* a row with a value where the probe key has its NULL.
C15_Witness ==
  /\ stores_nulls
  /\ Drained("it1") /\ it["it1"].probe # NULL
  /\ HasNullKey(ProbeKey(it["it1"].probe))
  /\ ~AllNullKey(ProbeKey(it["it1"].probe))
  /\ Len(it["it1"].seen) = 1
  /\ \E j \in 1..size :
       /\ HasNullKey(BuildKey(Nodes(hash_tbl_)[j]))
       /\ \E n \in 1..NumExprs :
            /\ BuildKey(Nodes(hash_tbl_)[j])[n] = NullV
            /\ ProbeKey(it["it1"].probe)[n] # NullV
  /\ \E j \in 1..size : ~HasNullKey(BuildKey(Nodes(hash_tbl_)[j]))

\* C16: when the table does not store NULLs, no call of EqualsFn compares
\* two key values that are both NULL at the same position, and a Scan with
\* a probe row whose key has a NULL ranges over nothing, whatever is
\* stored.
C16_NoNullNullComparison ==
  ~stores_nulls =>
    /\ \A e \in evals : ~e.nn
    /\ \A j \in 1..size : ~HasNullKey(BuildKey(Nodes(hash_tbl_)[j]))
    /\ \A i \in Iters :
         (it[i].valid /\ it[i].probe # NULL
            /\ HasNullKey(ProbeKey(it[i].probe))) =>
           (it[i].i_ = it[i].end_ /\ it[i].seen = <<>>)

\* C16 witness: without stored NULLs, a Scan whose probe key has a NULL and
\* a value compared the sentinel with a stored row and ranges over nothing,
\* after Insert calls with rows that have NULLs.
C16_Witness ==
  /\ ~stores_nulls
  /\ it["it1"].valid /\ it["it1"].probe # NULL
  /\ HasNullKey(ProbeKey(it["it1"].probe))
  /\ \E e \in evals : e.fn = "equals" /\ e.a = "sentinel"
  /\ \E r \in BuildRows : HasNulls(r) /\ inserted[r] > 0
  /\ size >= 1

\* C17: the range of an iterator is fixed when Scan returns and does not
\* depend on current_probe_row_ afterwards. With two scans open on two
\* iterators and no Insert since, whatever the order of the Scan and
\* GetNext calls, each iterator ranges over exactly the entries that match
\* its own probe row (every entry for the NULL probe row) and, once
\* drained, has yielded each of them once.
C17_RangeFixedAtScan ==
  \A i \in Iters :
    it[i].valid =>
      LET own == IF it[i].probe = NULL THEN 1..size
                 ELSE MatchPositions(it[i].probe)
      IN  /\ Yield(i) = own
          /\ Cardinality(Range(it[i].seen)) = Len(it[i].seen)
          /\ Drained(i) =>
               (Range(it[i].seen) = own
                  /\ Len(it[i].seen) = Cardinality(own))

\* C17 witness: Scan(p1, it1), then Scan(p2, it2) with another key, and
\* both iterators drained, it1 last, each having yielded the one entry of
\* its own key while current_probe_row_ is p2.
C17_Witness ==
  /\ Drained("it1") /\ Drained("it2")
  /\ it["it1"].probe # NULL /\ it["it2"].probe # NULL
  /\ it["it1"].probe # it["it2"].probe
  /\ current_probe_row_ = it["it2"].probe
  /\ Len(it["it1"].seen) = 1 /\ Len(it["it2"].seen) = 1
  /\ it["it1"].seen # it["it2"].seen
  /\ JustGot("it1") /\ ret.row # NULL

====
